---- MODULE Spec2Model ----
(***************************************************************************)
(* CardioAI (src/app.py): a Streamlit script that collects eleven patient   *)
(* measurements, derives a 14-column one-row feature table, calls a         *)
(* pickled classifier and renders the result.                               *)
(*                                                                          *)
(* Floating-point values are modelled as exact rationals <<num, den>> in    *)
(* lowest terms (den > 0); <<n, 0>> stands for a division by zero.          *)
(***************************************************************************)
EXTENDS Integers, Sequences, FiniteSets, TLC

(* ---------------------------------------------------------------------- *)
(* Bounds of the model                                                     *)
(* ---------------------------------------------------------------------- *)
\* number of operator sessions served by the one process
NumSessions == 2
\* at most this many widgets of a session differ from their default values
MaxChanged == 2
\* model.pkl is opened at most this many times
MaxReads == 2

Sessions == 1..NumSessions

(* ---------------------------------------------------------------------- *)
(* Widget ranges and defaults (Collector, app.py lines 108-146)            *)
(* ---------------------------------------------------------------------- *)
AgeMin == 20
AgeMax == 100
AgeDefault == 50
HeightMin == 100
HeightMax == 250
HeightDefault == 165
WeightMin == 30
WeightMax == 200
WeightDefault == 70
ApHiMin == 80
ApHiMax == 220
ApHiDefault == 120
ApLoMin == 40
ApLoMax == 140
ApLoDefault == 80
LevelOptions == {1, 2, 3}
GenderOptions == {"Female", "Male"}

(* ---------------------------------------------------------------------- *)
(* Arithmetic helpers: Python floats as exact rationals                    *)
(* ---------------------------------------------------------------------- *)
Abs(x) == IF x < 0 THEN -x ELSE x

RECURSIVE GCD(_, _)
GCD(a, b) == IF b = 0 THEN a ELSE GCD(b, a % b)

\* the rational n/d in lowest terms with a positive denominator
Rat(n, d) ==
    IF d = 0 THEN <<n, 0>>
    ELSE LET g == GCD(Abs(n), Abs(d))
             s == IF d < 0 THEN -1 ELSE 1
         IN  <<(s * n) \div g, (s * d) \div g>>

\* true division  a / b  of two rationals
RatDiv(a, b) == Rat(a[1] * b[2], a[2] * b[1])

\* a ** 2
RatSquare(a) == Rat(a[1] * a[1], a[2] * a[2])

\* int * float
RatMulInt(k, a) == Rat(k * a[1], a[2])

\* the float literal 365.25 (exactly representable in binary: 1461/4)
DaysPerYear == Rat(1461, 4)

\* Python int(x) on a float: truncation toward zero
PyInt(a) ==
    IF a[1] >= 0 THEN a[1] \div a[2] ELSE -((-a[1]) \div a[2])

(* ---------------------------------------------------------------------- *)
(* pandas.DataFrame with one row: a sequence of [name, val] columns        *)
(* ---------------------------------------------------------------------- *)
\* pd.DataFrame({...}): columns in the insertion order of the dict
DataFrame(cols) == cols

ColumnNames(df) == [i \in 1..Len(df) |-> df[i].name]

HasColumn(df, name) == \E i \in 1..Len(df) : df[i].name = name

\* df[name]
Col(df, name) == df[CHOOSE i \in 1..Len(df) : df[i].name = name].val

\* df[name] = val : replaces the column in place, or appends a new last column
SetColumn(df, name, val) ==
    IF HasColumn(df, name)
    THEN [i \in 1..Len(df) |->
            IF df[i].name = name THEN [name |-> name, val |-> val] ELSE df[i]]
    ELSE Append(df, [name |-> name, val |-> val])

(* ---------------------------------------------------------------------- *)
(* preprocess_input (app.py lines 32-76)                                   *)
(* ---------------------------------------------------------------------- *)
\* line 39: age_days = int(age * 365.25)
AgeDaysRounded(age) == (2 * age * 1461 + 4) \div 8
AgeDays(age) == PyInt(RatMulInt(age, DaysPerYear))

\* line 67: weight / ((height / 100) ** 2)
BmiNoMetres(weight, height) == RatDiv(Rat(weight, 1), RatSquare(Rat(height, 1)))
Bmi(weight, height) ==
    RatDiv(Rat(weight, 1), RatSquare(RatDiv(Rat(height, 1), Rat(100, 1))))

\* line 70: ap_hi - ap_lo
BpDiffClamped(ap_hi, ap_lo) == IF ap_hi - ap_lo < 0 THEN 0 ELSE ap_hi - ap_lo
BpDiff(ap_hi, ap_lo) == ap_hi - ap_lo

\* lines 51-63: the eleven-column frame, 'age' already in days
RawFrame(age_days, gender, height, weight, ap_hi, ap_lo, cholesterol, gluc, smoke, alco, active) ==
    DataFrame(<<
        [name |-> "age",         val |-> age_days],
        [name |-> "gender",      val |-> gender],
        [name |-> "height",      val |-> height],
        [name |-> "weight",      val |-> weight],
        [name |-> "ap_hi",       val |-> ap_hi],
        [name |-> "ap_lo",       val |-> ap_lo],
        [name |-> "cholesterol", val |-> cholesterol],
        [name |-> "gluc",        val |-> gluc],
        [name |-> "smoke",       val |-> smoke],
        [name |-> "alco",        val |-> alco],
        [name |-> "active",      val |-> active] >>)

\* line 74: input_data['age'] * input_data['ap_hi'] ('age' column is in days)
AgeApHiFromYears(df, age) == age * Col(df, "ap_hi")
AgeApHi(df, age) == Col(df, "age") * Col(df, "ap_hi")

\* the whole function
preprocess_input_reordered(age, gender, height, weight, ap_hi, ap_lo, cholesterol, gluc, smoke, alco, active) ==
    LET d0 == RawFrame(AgeDays(age), gender, height, weight, ap_hi, ap_lo,
                       cholesterol, gluc, smoke, alco, active)
        d1 == SetColumn(d0, "bp_diff", BpDiff(Col(d0, "ap_hi"), Col(d0, "ap_lo")))
        d2 == SetColumn(d1, "bmi", Bmi(Col(d1, "weight"), Col(d1, "height")))
    IN  SetColumn(d2, "age_ap_hi", AgeApHi(d2, age))

preprocess_input(age, gender, height, weight, ap_hi, ap_lo, cholesterol, gluc, smoke, alco, active) ==
    LET d0 == RawFrame(AgeDays(age), gender, height, weight, ap_hi, ap_lo,
                       cholesterol, gluc, smoke, alco, active)
        d1 == SetColumn(d0, "bmi", Bmi(Col(d0, "weight"), Col(d0, "height")))
        d2 == SetColumn(d1, "bp_diff", BpDiff(Col(d1, "ap_hi"), Col(d1, "ap_lo")))
    IN  SetColumn(d2, "age_ap_hi", AgeApHi(d2, age))

(* ---------------------------------------------------------------------- *)
(* State                                                                   *)
(* ---------------------------------------------------------------------- *)
VARIABLES
    widgets,      \* per session: the value held by each of the eleven widgets
    event,        \* per session: what triggered the current script run
    pc,           \* per session: where the script run stands
    model,        \* per session: local 'model' (line 165)
    input_df,     \* per session: local 'input_df' (line 169)
    prediction,   \* per session: local 'prediction' (line 175)
    probability,  \* per session: local 'probability' (line 176), in percent
    out,          \* per session: elements rendered by load_model and the result section
    calls,        \* per session: calls made by the current run
    cache,        \* st.cache_resource entry of load_model, shared by all sessions
    lock,         \* holder of the cache's compute lock, 0 when free
    diskReads,    \* number of times model.pkl has been opened
    artifact      \* what is on disk under the name model.pkl

vars == <<widgets, event, pc, model, input_df, prediction, probability, out, calls,
          cache, lock, diskReads, artifact>>

\* values of 'model' and of the cache entry: a handle is the number of the disk
\* read that unpickled it (pickle.load builds a new object on every call)
Unset == -1
None == 0

NoCalls == [load_model |-> 0, preprocess_input |-> 0, predict |-> 0, predict_proba |-> 0]

ArtifactStates == {"ok", "missing", "corrupt"}

DefaultWidgets ==
    [age |-> AgeDefault, gender_display |-> "Female",
     height |-> HeightDefault, weight |-> WeightDefault,
     ap_hi |-> ApHiDefault, ap_lo |-> ApLoDefault,
     cholesterol |-> 1, gluc |-> 1,
     smoke |-> FALSE, alco |-> FALSE, active |-> TRUE]

WidgetNames == DOMAIN DefaultWidgets

\* number of widgets that do not hold their default value
Changed(w) == Cardinality({f \in WidgetNames : w[f] # DefaultWidgets[f]})

(* ---------------------------------------------------------------------- *)
(* Collector (app.py lines 108-151)                                        *)
(* ---------------------------------------------------------------------- *)
\* st.slider(label, min, max, value): the thumb stops at the ends of the track
slider_unbounded(lo, hi, cur, v) == v
slider(lo, hi, cur, v) == IF v < lo THEN lo ELSE IF v > hi THEN hi ELSE v

\* st.number_input(label, min, max, value): an entry outside [min, max] is not committed
number_input_unbounded(lo, hi, cur, v) == v
number_input(lo, hi, cur, v) == IF lo <= v /\ v <= hi THEN v ELSE cur

\* line 110: gender = 1 if gender_display == "Female" else 2
GenderCodeSwapped(gender_display) == IF gender_display = "Female" THEN 2 ELSE 1
GenderCode(gender_display) == IF gender_display = "Female" THEN 1 ELSE 2

\* lines 149-151: 1 if toggle else 0
ToggleCode(on) == IF on THEN 1 ELSE 0

\* the eleven locals the script holds after line 151
Collector(w) ==
    [age |-> w.age, gender |-> GenderCode(w.gender_display),
     height |-> w.height, weight |-> w.weight,
     ap_hi |-> w.ap_hi, ap_lo |-> w.ap_lo,
     cholesterol |-> w.cholesterol, gluc |-> w.gluc,
     smoke |-> ToggleCode(w.smoke), alco |-> ToggleCode(w.alco),
     active |-> ToggleCode(w.active)]

\* line 163: if predict_btn
EntersResultSectionAlways(predict_btn) == TRUE
EntersResultSection(predict_btn) == predict_btn

\* what the operator may try on the widgets
AgeDrags == {AgeMin - 1, AgeMin, AgeMax, AgeMax + 1}
HeightEntries == {HeightMin - 1, HeightMin, HeightMax, HeightMax + 1}
WeightEntries == {WeightMin - 1, WeightMin, WeightMax, WeightMax + 1}
ApHiEntries == {ApHiMin - 1, ApHiMin, ApHiMax, ApHiMax + 1}
ApLoEntries == {ApLoMin - 1, ApLoMin, 90, ApLoMax, ApLoMax + 1}

\* A widget event: the session's script is rerun from the top with the new
\* widget state.  A run in progress is abandoned at its next st.* call.
Rerun(s, w, ev) ==
    /\ pc[s] \in {"idle", "load", "crashed"}
    /\ Changed(w) <= MaxChanged
    /\ widgets' = [widgets EXCEPT ![s] = w]
    /\ event' = [event EXCEPT ![s] = ev]
    /\ pc' = [pc EXCEPT ![s] =
                IF EntersResultSection(ev = "button") THEN "load" ELSE "idle"]
    /\ model' = [model EXCEPT ![s] = Unset]
    /\ input_df' = [input_df EXCEPT ![s] = <<>>]
    /\ prediction' = [prediction EXCEPT ![s] = Unset]
    /\ probability' = [probability EXCEPT ![s] = Unset]
    /\ out' = [out EXCEPT ![s] = <<>>]
    /\ calls' = [calls EXCEPT ![s] = NoCalls]
    /\ UNCHANGED <<cache, lock, diskReads, artifact>>

WidgetChange(s, f, v) ==
    /\ v # widgets[s][f]
    /\ Rerun(s, [widgets[s] EXCEPT ![f] = v], "widget")

SliderAge(s) ==
    \E v \in AgeDrags :
        WidgetChange(s, "age", slider(AgeMin, AgeMax, widgets[s].age, v))

RadioGender(s) ==
    \E g \in GenderOptions : WidgetChange(s, "gender_display", g)

NumberInputHeight(s) ==
    \E v \in HeightEntries :
        WidgetChange(s, "height", number_input(HeightMin, HeightMax, widgets[s].height, v))

NumberInputWeight(s) ==
    \E v \in WeightEntries :
        WidgetChange(s, "weight", number_input(WeightMin, WeightMax, widgets[s].weight, v))

NumberInputApHi(s) ==
    \E v \in ApHiEntries :
        WidgetChange(s, "ap_hi", number_input(ApHiMin, ApHiMax, widgets[s].ap_hi, v))

NumberInputApLo(s) ==
    \E v \in ApLoEntries :
        WidgetChange(s, "ap_lo", number_input(ApLoMin, ApLoMax, widgets[s].ap_lo, v))

SelectSlider(s) ==
    \E f \in {"cholesterol", "gluc"} : \E v \in LevelOptions : WidgetChange(s, f, v)

Toggle(s) ==
    \E f \in {"smoke", "alco", "active"} : WidgetChange(s, f, ~widgets[s][f])

\* line 158: st.button returns True in the run its press triggers
PressButton(s) == Rerun(s, widgets[s], "button")

(* ---------------------------------------------------------------------- *)
(* load_model (app.py lines 21-30)                                         *)
(* ---------------------------------------------------------------------- *)
\* lines 24-30: the function body; 'id' names the object pickle.load would build
load_model_uncaught(art, id) ==
    IF art = "ok"
    THEN [raised |-> FALSE, value |-> id, messages |-> <<>>]
    ELSE [raised |-> TRUE, value |-> None, messages |-> <<>>]
load_model(art, id) ==
    IF art = "ok"
    THEN [raised |-> FALSE, value |-> id, messages |-> <<>>]
    ELSE [raised |-> FALSE, value |-> None, messages |-> <<"error_loading_model">>]

\* line 21, @st.cache_resource: is there a memoized result (None is one)
CacheHitNever(c) == FALSE
CacheHit(c) == c # Unset

\* the st.error recorded with a memoized None is replayed on every hit
CachedMessages(c) == IF c = None THEN <<"error_loading_model">> ELSE <<>>

\* line 165, model = load_model(): first look-up, outside the compute lock
CacheLookup(s) ==
    /\ pc[s] = "load"
    /\ calls' = [calls EXCEPT ![s].load_model = @ + 1]
    /\ IF CacheHit(cache)
       THEN /\ model' = [model EXCEPT ![s] = cache]
            /\ out' = [out EXCEPT ![s] = @ \o CachedMessages(cache)]
            /\ pc' = [pc EXCEPT ![s] = "have_model"]
       ELSE /\ pc' = [pc EXCEPT ![s] = "wait_lock"]
            /\ UNCHANGED <<model, out>>
    /\ UNCHANGED <<widgets, event, input_df, prediction, probability,
                   cache, lock, diskReads, artifact>>

\* a miss takes the compute lock of the entry
CacheAcquire(s) ==
    /\ pc[s] = "wait_lock"
    /\ lock = 0
    /\ lock' = s
    /\ pc' = [pc EXCEPT ![s] = "locked"]
    /\ UNCHANGED <<widgets, event, model, input_df, prediction, probability, out,
                   calls, cache, diskReads, artifact>>

\* under the lock: look up again, else run load_model and memoize what it returns
CacheCompute(s) ==
    /\ pc[s] = "locked"
    /\ lock' = 0
    /\ IF CacheHit(cache)
       THEN /\ model' = [model EXCEPT ![s] = cache]
            /\ out' = [out EXCEPT ![s] = @ \o CachedMessages(cache)]
            /\ pc' = [pc EXCEPT ![s] = "have_model"]
            /\ UNCHANGED <<cache, diskReads>>
       ELSE /\ diskReads < MaxReads
            /\ diskReads' = diskReads + 1
            /\ LET r == load_model(artifact, diskReads + 1) IN
                 IF r.raised
                 THEN /\ pc' = [pc EXCEPT ![s] = "crashed"]
                      /\ UNCHANGED <<model, out, cache>>
                 ELSE /\ cache' = r.value
                      /\ model' = [model EXCEPT ![s] = r.value]
                      /\ out' = [out EXCEPT ![s] = @ \o r.messages]
                      /\ pc' = [pc EXCEPT ![s] = "have_model"]
    /\ UNCHANGED <<widgets, event, input_df, prediction, probability, calls, artifact>>

(* ---------------------------------------------------------------------- *)
(* Result section (app.py lines 163-222)                                   *)
(* ---------------------------------------------------------------------- *)
\* line 167: if model
Truthy(m) == m # None

\* lines 169-171
Preprocess(s) ==
    /\ pc[s] = "have_model"
    /\ Truthy(model[s])
    /\ LET o == Collector(widgets[s]) IN
         input_df' = [input_df EXCEPT ![s] =
            preprocess_input(o.age, o.gender, o.height, o.weight, o.ap_hi, o.ap_lo,
                             o.cholesterol, o.gluc, o.smoke, o.alco, o.active)]
    /\ calls' = [calls EXCEPT ![s].preprocess_input = @ + 1]
    /\ pc' = [pc EXCEPT ![s] = "predict"]
    /\ UNCHANGED <<widgets, event, model, prediction, probability, out,
                   cache, lock, diskReads, artifact>>

\* lines 221-222
Unavailable(s) ==
    /\ pc[s] = "have_model"
    /\ ~Truthy(model[s])
    /\ out' = [out EXCEPT ![s] = Append(@, "model_unavailable")]
    /\ pc' = [pc EXCEPT ![s] = "idle"]
    /\ UNCHANGED <<widgets, event, model, input_df, prediction, probability, calls,
                   cache, lock, diskReads, artifact>>

\* what a call of the opaque classifier can do: raise, or return a value
PredictOutcomes ==
    {[raised |-> TRUE, value |-> Unset]} \cup {[raised |-> FALSE, value |-> v] : v \in {0, 1}}
ProbaOutcomes ==
    {[raised |-> TRUE, value |-> Unset]} \cup {[raised |-> FALSE, value |-> v] : v \in {12, 87}}

\* lines 180-189 and 192-207
Card(pred) == IF pred = 1 THEN "card_high" ELSE "card_low"

\* lines 210-216
Insights(o) ==
    (IF o.cholesterol > 1 \/ o.gluc > 1 THEN <<"warning_labs">> ELSE <<>>)
    \o (IF o.ap_hi > 140 \/ o.ap_lo > 90 THEN <<"warning_hypertension">> ELSE <<>>)

\* lines 218-220
Diagnostic == <<"prediction_error", "format_info">>

\* lines 173-220: the try block, given what predict and predict_proba do
ResultSectionSeparatorFirst(p, q, o) ==
    IF p.raised
    THEN [out |-> Diagnostic, prediction |-> Unset, probability |-> Unset,
          predict |-> 1, predict_proba |-> 0]
    ELSE IF q.raised
    THEN [out |-> <<"separator">> \o Diagnostic, prediction |-> p.value,
          probability |-> Unset, predict |-> 1, predict_proba |-> 1]
    ELSE [out |-> <<"separator", Card(p.value)>> \o Insights(o),
          prediction |-> p.value, probability |-> q.value,
          predict |-> 1, predict_proba |-> 1]
ResultSection(p, q, o) ==
    IF p.raised
    THEN [out |-> Diagnostic, prediction |-> Unset, probability |-> Unset,
          predict |-> 1, predict_proba |-> 0]
    ELSE IF q.raised
    THEN [out |-> Diagnostic, prediction |-> p.value, probability |-> Unset,
          predict |-> 1, predict_proba |-> 1]
    ELSE [out |-> <<"separator", Card(p.value)>> \o Insights(o),
          prediction |-> p.value, probability |-> q.value,
          predict |-> 1, predict_proba |-> 1]

Classify(s) ==
    /\ pc[s] = "predict"
    /\ \E p \in PredictOutcomes : \E q \in ProbaOutcomes :
         LET r == ResultSection(p, q, Collector(widgets[s])) IN
           /\ prediction' = [prediction EXCEPT ![s] = r.prediction]
           /\ probability' = [probability EXCEPT ![s] = r.probability]
           /\ out' = [out EXCEPT ![s] = @ \o r.out]
           /\ calls' = [calls EXCEPT ![s].predict = @ + r.predict,
                                     ![s].predict_proba = @ + r.predict_proba]
    /\ pc' = [pc EXCEPT ![s] = "idle"]
    /\ UNCHANGED <<widgets, event, model, input_df, cache, lock, diskReads, artifact>>

\* model.pkl is deployed, removed or damaged while the process runs
ArtifactChange ==
    /\ \E a \in ArtifactStates \ {artifact} : artifact' = a
    /\ UNCHANGED <<widgets, event, pc, model, input_df, prediction, probability, out,
                   calls, cache, lock, diskReads>>

(* ---------------------------------------------------------------------- *)
(* Specifications                                                          *)
(* ---------------------------------------------------------------------- *)
\* every session has rendered the form once, nothing has been loaded
Init ==
    /\ widgets = [s \in Sessions |-> DefaultWidgets]
    /\ event = [s \in Sessions |-> "none"]
    /\ pc = [s \in Sessions |-> "idle"]
    /\ model = [s \in Sessions |-> Unset]
    /\ input_df = [s \in Sessions |-> <<>>]
    /\ prediction = [s \in Sessions |-> Unset]
    /\ probability = [s \in Sessions |-> Unset]
    /\ out = [s \in Sessions |-> <<>>]
    /\ calls = [s \in Sessions |-> NoCalls]
    /\ cache = Unset
    /\ lock = 0
    /\ diskReads = 0
    /\ artifact \in ArtifactStates

\* one operator session using every widget
Next ==
    \/ SliderAge(1)
    \/ RadioGender(1)
    \/ NumberInputHeight(1)
    \/ NumberInputWeight(1)
    \/ NumberInputApHi(1)
    \/ NumberInputApLo(1)
    \/ SelectSlider(1)
    \/ Toggle(1)
    \/ PressButton(1)
    \/ CacheLookup(1)
    \/ CacheAcquire(1)
    \/ CacheCompute(1)
    \/ Preprocess(1)
    \/ Unavailable(1)
    \/ Classify(1)
    \/ ArtifactChange

Spec == Init /\ [][Next]_vars

\* several operator sessions in the one process
NextConcurrent ==
    \/ \E s \in Sessions :
         \/ RadioGender(s)
         \/ PressButton(s)
         \/ CacheLookup(s)
         \/ CacheAcquire(s)
         \/ CacheCompute(s)
         \/ Preprocess(s)
         \/ Unavailable(s)
         \/ Classify(s)
    \/ ArtifactChange

SpecConcurrent == Init /\ [][NextConcurrent]_vars

\* preprocess_input as a function of its arguments: the run stands at line 169
\* with a loaded model, the widgets holding any of the sampled observations
NumericSamples ==
    [age : AgeMin..AgeMax,
     height : {HeightMin, HeightDefault, HeightMax},
     weight : {WeightMin, WeightDefault, WeightMax},
     ap_hi : {ApHiMin, ApHiDefault, ApHiMax},
     ap_lo : {ApLoMin, 90, ApLoMax},
     gender_display : GenderOptions,
     cholesterol : {1}, gluc : {1},
     smoke : {FALSE}, alco : {FALSE}, active : {TRUE}]

CategoricalSamples ==
    [age : {AgeMin, AgeDefault, AgeMax},
     height : {HeightMin, HeightMax},
     weight : {WeightMin, WeightMax},
     ap_hi : {ApHiMin, ApHiMax},
     ap_lo : {ApLoMin, ApLoMax},
     gender_display : GenderOptions,
     cholesterol : LevelOptions, gluc : LevelOptions,
     smoke : BOOLEAN, alco : BOOLEAN, active : BOOLEAN]

InitDerive ==
    /\ \E w \in NumericSamples \cup CategoricalSamples :
         widgets = [s \in Sessions |-> IF s = 1 THEN w ELSE DefaultWidgets]
    /\ event = [s \in Sessions |-> IF s = 1 THEN "button" ELSE "none"]
    /\ pc = [s \in Sessions |-> IF s = 1 THEN "have_model" ELSE "idle"]
    /\ model = [s \in Sessions |-> IF s = 1 THEN 1 ELSE Unset]
    /\ input_df = [s \in Sessions |-> <<>>]
    /\ prediction = [s \in Sessions |-> Unset]
    /\ probability = [s \in Sessions |-> Unset]
    /\ out = [s \in Sessions |-> <<>>]
    /\ calls = [s \in Sessions |-> IF s = 1 THEN [NoCalls EXCEPT !.load_model = 1] ELSE NoCalls]
    /\ cache = 1
    /\ lock = 0
    /\ diskReads = 1
    /\ artifact = "ok"

NextDerive == Preprocess(1)

SpecDerive == InitDerive /\ [][NextDerive]_vars

(* ---------------------------------------------------------------------- *)
(* Properties                                                              *)
(* ---------------------------------------------------------------------- *)
\* the sessions whose run has built its feature table
Derived == {s \in Sessions : input_df[s] # <<>>}

\* C1: for every age in [20, 100] the 'age' column holds floor(age * 365.25),
\* i.e. the integer d with 4*d <= 1461*age < 4*(d+1); 50 gives 18262 and 20
\* gives 7305 (truncated, never rounded up).
C1_AgeDaysIsFloor ==
    \A s \in Derived :
        LET a == widgets[s].age
            d == Col(input_df[s], "age")
        IN  /\ 4 * d <= 1461 * a
            /\ 1461 * a < 4 * (d + 1)
            /\ d = (1461 * a) \div 4
            /\ (a = 50 => d = 18262)
            /\ (a = 20 => d = 7305)

\* a half-day product (age 50: 18262.5) has been truncated
C1_Witness ==
    \E s \in Derived :
        /\ widgets[s].age = 50
        /\ Col(input_df[s], "age") = 18262

\* C2: the 'age_ap_hi' column equals age_days * systolic_bp with the age in
\* days as stored in the same table, not the age in years; 50 years and 120
\* give 2191440.
C2_InteractionUsesDays ==
    \A s \in Derived :
        LET w == widgets[s]
            df == input_df[s]
        IN  /\ Col(df, "age_ap_hi") = Col(df, "age") * Col(df, "ap_hi")
            /\ Col(df, "age_ap_hi") = ((1461 * w.age) \div 4) * w.ap_hi
            /\ Col(df, "age_ap_hi") # w.age * w.ap_hi
            /\ (w.age = 50 /\ w.ap_hi = 120 => Col(df, "age_ap_hi") = 2191440)

C2_Witness ==
    \E s \in Derived :
        /\ widgets[s].age = 50
        /\ widgets[s].ap_hi = 120
        /\ Col(input_df[s], "age_ap_hi") = 2191440

\* C3: the 'bp_diff' column equals systolic_bp - diastolic_bp exactly, also
\* when that is negative (80 and 90 give -10): no clamping.
C3_PulsePressureExact ==
    \A s \in Derived :
        LET w == widgets[s]
            df == input_df[s]
        IN  /\ Col(df, "bp_diff") = w.ap_hi - w.ap_lo
            /\ (w.ap_hi = 80 /\ w.ap_lo = 90 => Col(df, "bp_diff") = -10)

C3_Witness ==
    \E s \in Derived :
        /\ widgets[s].ap_hi = 80
        /\ widgets[s].ap_lo = 90
        /\ Col(input_df[s], "bp_diff") = -10

Schema ==
    <<"age", "gender", "height", "weight", "ap_hi", "ap_lo", "cholesterol",
      "gluc", "smoke", "alco", "active", "bmi", "bp_diff", "age_ap_hi">>

Rendered(s) == {out[s][i] : i \in 1..Len(out[s])}

ResultElements ==
    {"separator", "card_high", "card_low", "warning_labs", "warning_hypertension"}

\* C6: a failed load is caught inside load_model, which then returns None
\* (no exception leaves the run); a request that got None calls neither
\* preprocess_input nor predict nor predict_proba, renders no part of a
\* result, and ends with 'Model unavailable.' as the last thing rendered.
C6_LoadFailureReportsUnavailable ==
    \A s \in Sessions :
        /\ pc[s] # "crashed"
        /\ ("error_loading_model" \in Rendered(s) => model[s] = None)
        /\ model[s] = None =>
             /\ calls[s].preprocess_input = 0
             /\ calls[s].predict = 0
             /\ calls[s].predict_proba = 0
             /\ input_df[s] = <<>>
             /\ Rendered(s) \cap ResultElements = {}
             /\ pc[s] = "idle" =>
                  /\ out[s] # <<>>
                  /\ out[s][Len(out[s])] = "model_unavailable"

\* a button press whose load failed ended with 'Model unavailable.'
C6_Witness ==
    \E s \in Sessions :
        /\ event[s] = "button"
        /\ pc[s] = "idle"
        /\ model[s] = None
        /\ out[s] = <<"error_loading_model", "model_unavailable">>

\* C7: when predict or predict_proba raised, the finished request shows the
\* error diagnostic and nothing else (no separator, card or warning), predict
\* was called once and predict_proba at most once, and not at all when predict
\* itself raised.
C7_PredictionFailureIsTerminal ==
    \A s \in Sessions :
        (/\ pc[s] = "idle"
         /\ calls[s].predict >= 1
         /\ (prediction[s] = Unset \/ probability[s] = Unset))
        =>
        /\ out[s] = Diagnostic
        /\ Rendered(s) \cap ResultElements = {}
        /\ calls[s].predict = 1
        /\ calls[s].predict_proba <= 1
        /\ (prediction[s] = Unset => calls[s].predict_proba = 0)

\* predict returned a label and predict_proba raised
C7_Witness ==
    \E s \in Sessions :
        /\ pc[s] = "idle"
        /\ prediction[s] \in {0, 1}
        /\ probability[s] = Unset
        /\ calls[s].predict_proba = 1
        /\ out[s] = Diagnostic

\* C8 as stated: every operator action, a widget change as much as a button
\* press, ends in a run that called load_model and, with a model, derived the
\* features and called the classifier.
C8_EveryActionRunsPipeline ==
    \A s \in Sessions :
        (event[s] # "none" /\ pc[s] = "idle") =>
            /\ calls[s].load_model = 1
            /\ (Truthy(model[s]) =>
                  calls[s].preprocess_input = 1 /\ calls[s].predict = 1)

\* C8 amended: a run triggered by anything but the analyze button ends after
\* the collector (no load, derive, predict or present, nothing rendered by the
\* result section); a run triggered by the button calls each stage at most
\* once and, once finished with a model, has derived and predicted exactly
\* once.
C8_OnlyButtonRunsPipeline ==
    \A s \in Sessions :
        /\ event[s] # "button" =>
             /\ pc[s] = "idle"
             /\ calls[s] = NoCalls
             /\ out[s] = <<>>
             /\ input_df[s] = <<>>
             /\ prediction[s] = Unset
        /\ event[s] = "button" =>
             /\ \A f \in DOMAIN NoCalls : calls[s][f] <= 1
             /\ pc[s] = "idle" =>
                  /\ calls[s].load_model = 1
                  /\ (Truthy(model[s]) =>
                        calls[s].preprocess_input = 1 /\ calls[s].predict = 1)

\* a widget was changed and the run it triggered is over
C8_Witness ==
    \E s \in Sessions :
        /\ event[s] = "widget"
        /\ widgets[s] # DefaultWidgets
        /\ pc[s] = "idle"
        /\ cache # Unset

\* what a session's run works on
Locals(s) == <<widgets[s], model[s], input_df[s], prediction[s], probability[s], out[s]>>

\* C9: model.pkl is opened at most once; every run that holds a 'model' holds
\* the memoized value (the one handle, or None after a failed first load);
\* once memoized the value is never replaced; and no step changes what two
\* different sessions work on.
C9_LoadedOnceAndShared ==
    /\ [](/\ diskReads <= 1
          /\ cache \in {Unset, None, 1}
          /\ \A s \in Sessions : model[s] # Unset => model[s] = cache)
    /\ [][/\ cache # Unset => cache' = cache
          /\ \A s, t \in Sessions :
                (s # t /\ Locals(s)' # Locals(s)) => Locals(t)' = Locals(t)]_vars

\* two sessions with different observations hold the one handle
C9_Witness ==
    \E s, t \in Sessions :
        /\ s # t
        /\ model[s] = 1
        /\ model[t] = 1
        /\ diskReads = 1
        /\ input_df[s] # <<>>
        /\ input_df[t] # <<>>
        /\ input_df[s] # input_df[t]

\* the domains of the eleven fields of an observation
InDomain(o) ==
    /\ o.age \in AgeMin..AgeMax
    /\ o.gender \in {1, 2}
    /\ o.height \in HeightMin..HeightMax
    /\ o.weight \in WeightMin..WeightMax
    /\ o.ap_hi \in ApHiMin..ApHiMax
    /\ o.ap_lo \in ApLoMin..ApLoMax
    /\ o.cholesterol \in {1, 2, 3}
    /\ o.gluc \in {1, 2, 3}
    /\ o.smoke \in {0, 1}
    /\ o.alco \in {0, 1}
    /\ o.active \in {0, 1}

\* C10: the eleven values the collector holds, and so the ones it hands to
\* preprocess_input, are always inside their domains, with Female -> 1,
\* Male -> 2, toggle off -> 0 and on -> 1; the raw columns of a derived table
\* are those in-domain values.
C10_CollectorKeepsDomains ==
    \A s \in Sessions :
        LET w == widgets[s]
            o == Collector(w)
            df == input_df[s]
        IN  /\ InDomain(o)
            /\ (w.gender_display = "Female" => o.gender = 1)
            /\ (w.gender_display = "Male" => o.gender = 2)
            /\ o.smoke = (IF w.smoke THEN 1 ELSE 0)
            /\ o.alco = (IF w.alco THEN 1 ELSE 0)
            /\ o.active = (IF w.active THEN 1 ELSE 0)
            /\ s \in Derived =>
                 /\ df[1].val \in 7305..36525
                 /\ InDomain([age |-> o.age, gender |-> df[2].val,
                              height |-> df[3].val, weight |-> df[4].val,
                              ap_hi |-> df[5].val, ap_lo |-> df[6].val,
                              cholesterol |-> df[7].val, gluc |-> df[8].val,
                              smoke |-> df[9].val, alco |-> df[10].val,
                              active |-> df[11].val])

\* a table was derived from an observation on the edge of two domains
C10_Witness ==
    \E s \in Derived :
        /\ widgets[s].height = HeightMax
        /\ widgets[s].age = AgeMin
        /\ input_df[s][3].val = HeightMax

====
